---- MODULE Spec2Model ----
(***************************************************************************)
(* Model of the task manager backend (src/app.py): the six JSON handlers   *)
(* register, login, get_tasks, add_task, update_task and delete_task, the  *)
(* users and tasks tables they work on, and the store connections they     *)
(* open.  Concurrent requests are served by the workers of Procs.  A       *)
(* handler runs in steps: entry (content-type check and                    *)
(* get_db_connection), execute (cursor creation, execute, fetch) and, for  *)
(* the handlers that write, commit.  A store fault (mysql.connector.Error) *)
(* may be raised at cursor creation, at execute/fetch and at commit.       *)
(***************************************************************************)
EXTENDS Integers, Sequences, FiniteSets, TLC

\* ----------------------------------------------------------------- bounds
Procs == {1, 2}
Usernames == {"alice", "bob"}
Passwords == {"pw1", "pw2"}
Titles == {"Buy milk"}
Statuses == {"done", "archived"}
UserIds == {1, 2}
TaskIds == {1, 2}

\* requests served in one run: of any handler (Spec), of the two auth handlers
\* (SpecAuth), of the four task handlers (SpecTasks)
MaxRequests == 2
MaxAuthRequests == 4
MaxTaskRequests == 3
\* store faults injected in one run, ticks of the store's clock
MaxFaults == 1
MaxClock == 1

\* the caller that never logged in
Anonymous == 0

VARIABLES
    users,        \* committed rows of table users: [id, username, password]
    nextUserId,   \* AUTO_INCREMENT counter of users.id
    tasks,        \* committed rows of table tasks
    nextTaskId,   \* AUTO_INCREMENT counter of tasks.id
    clock,        \* the store's CURRENT_TIMESTAMP
    pc,           \* position of each worker's handler
    req,          \* the request each worker is serving (or served last)
    resp,         \* the response of the last finished handler of each worker
    pending,      \* the row a worker inserted and has not committed yet
    openConns,    \* connections opened by get_db_connection and not closed
    fault,        \* the store fault raised in the worker's current request
    nReq,         \* requests begun
    nFaults,      \* faults injected
    sessions,     \* user ids returned by a 200 login (the logged-in callers)
    registered    \* rows whose register request answered 201

vars == <<users, nextUserId, tasks, nextTaskId, clock, pc, req, resp, pending,
          openConns, fault, nReq, nFaults, sessions, registered>>

\* ---------------------------------------------------------------- records
NoRow == [kind |-> "none"]
NoResp == [status |-> 0, handled |-> TRUE, body |-> [none |-> TRUE]]

UserRow(id, username, password) ==
    [id |-> id, username |-> username, password |-> password]

TaskRow(id, title, status, user_id, created_at) ==
    [id |-> id, title |-> title, status |-> status, user_id |-> user_id,
     created_at |-> created_at]

Request(handler, is_json, username, password, user_id, title, task_id, status, caller) ==
    [handler |-> handler, is_json |-> is_json, username |-> username,
     password |-> password, user_id |-> user_id, title |-> title,
     task_id |-> task_id, status |-> status, caller |-> caller]

NoReq == Request("none", TRUE, "", "", 0, "", 0, "", Anonymous)

\* jsonify(body), status
Json(status, body) == [status |-> status, handled |-> TRUE, body |-> body]
\* an exception that leaves the view function: the transport answers 500 with
\* its own error page, not a JSON body
Unhandled(exc) == [status |-> 500, handled |-> FALSE, body |-> [exception |-> exc]]

Callers == {Anonymous} \cup sessions

\* ---------------------------------------------------------- the requests
\* a request that is not JSON has no parsed body: only its path is read
RegisterRequests ==
    {Request("register", TRUE, u, pw, 0, "", 0, "", Anonymous) :
        u \in Usernames, pw \in Passwords}
    \cup {Request("register", FALSE, "", "", 0, "", 0, "", Anonymous)}
LoginRequests ==
    {Request("login", TRUE, u, pw, 0, "", 0, "", Anonymous) :
        u \in Usernames, pw \in Passwords}
    \cup {Request("login", FALSE, "", "", 0, "", 0, "", Anonymous)}

Init ==
    /\ users = {}
    /\ nextUserId = 1
    /\ tasks = {}
    /\ nextTaskId = 1
    /\ clock = 0
    /\ pc = [p \in Procs |-> "idle"]
    /\ req = [p \in Procs |-> NoReq]
    /\ resp = [p \in Procs |-> NoResp]
    /\ pending = [p \in Procs |-> NoRow]
    /\ openConns = 0
    /\ fault = [p \in Procs |-> "none"]
    /\ nReq = 0
    /\ nFaults = 0
    /\ sessions = {}
    /\ registered = {}

\* ------------------------------------------------- the store's statements
\* (variant: username carries no UNIQUE index, the INSERT never fails)
NoUniqueIndex(rows, username) == FALSE

\* INSERT INTO users: the UNIQUE index on username rejects a second row
DuplicateUsername(rows, username) == \E u \in rows : u.username = username

\* (variants: the WHERE clause compares one column only)
LoginQueryByPassword(rows, username, password) ==
    {u \in rows : u.password = password}

LoginQueryByUsername(rows, username, password) ==
    {u \in rows : u.username = username}

\* SELECT id, username FROM users WHERE username = %s AND password = %s
LoginQuery(rows, username, password) ==
    {u \in rows : u.username = username /\ u.password = password}

\* SELECT * FROM tasks WHERE user_id = %s
SelectTasks(rows, user_id) == {t \in rows : t.user_id = user_id}

\* the sequences that list every element of S once
Listings(S) ==
    {s \in [1..Cardinality(S) -> S] : \A i, j \in 1..Cardinality(S) : s[i] = s[j] => i = j}

\* (variant: ORDER BY created_at, ascending)
OrderByCreatedAtAsc(S) ==
    {s \in Listings(S) :
        \A i, j \in 1..Len(s) : i < j => s[i].created_at <= s[j].created_at}

\* ORDER BY created_at DESC: the store sorts on created_at alone; rows with the
\* same created_at come in an order the store chooses
OrderByCreatedAtDesc(S) ==
    {s \in Listings(S) :
        \A i, j \in 1..Len(s) : i < j => s[i].created_at >= s[j].created_at}

\* (variant: UPDATE without its WHERE clause)
UpdateStatusOfAll(rows, task_id, status) ==
    {[t EXCEPT !.status = status] : t \in rows}

\* UPDATE tasks SET status = %s WHERE id = %s
UpdateStatus(rows, task_id, status) ==
    {IF t.id = task_id THEN [t EXCEPT !.status = status] ELSE t : t \in rows}

\* (variant: DELETE without its WHERE clause)
DeleteAllTasks(rows, task_id) == {t \in rows : FALSE}

\* DELETE FROM tasks WHERE id = %s
DeleteTask(rows, task_id) == {t \in rows : t.id # task_id}

\* (variant: update_task without the content-type check)
RequiresJsonButUpdate(handler) == handler \in {"register", "login", "add_task"}

\* the handlers that start with "if not request.is_json: return ..., 415"
RequiresJson(handler) == handler \in {"register", "login", "add_task", "update_task"}

\* ------------------------------------------------------- handler plumbing
\* the fault a statement may raise, while the run's fault budget lasts
FaultAt(points) == IF nFaults < MaxFaults THEN points \cup {"none"} ELSE {"none"}

Raise(p, f) ==
    /\ fault' = [fault EXCEPT ![p] = f]
    /\ nFaults' = IF f = "none" THEN nFaults ELSE nFaults + 1

\* the handler returns r; closes says whether conn.close() ran on the way out
Return(p, r, closes) ==
    /\ pc' = [pc EXCEPT ![p] = "done"]
    /\ resp' = [resp EXCEPT ![p] = r]
    /\ openConns' = IF closes THEN openConns - 1 ELSE openConns

\* a request arrives; the handler checks the content type and connects.
\* get_db_connection returns None when mysql.connector.connect raises.
\* Workers are interchangeable: the transport hands a request to the first
\* free one.
Free(p) == pc[p] \in {"idle", "done"}

Entry(p, r, downMessage, limit) ==
    /\ Free(p)
    /\ \A q \in Procs : q < p => ~Free(q)
    /\ nReq < limit
    /\ nReq' = nReq + 1
    /\ req' = [req EXCEPT ![p] = r]
    /\ IF RequiresJson(r.handler) /\ ~r.is_json
         THEN /\ Return(p, Json(415, [error |-> "Content-Type must be application/json"]), FALSE)
              /\ Raise(p, "none")
         ELSE \E f \in FaultAt({"connect"}) :
                /\ Raise(p, f)
                /\ IF f = "connect"
                     THEN Return(p, Json(500, [error |-> downMessage]), FALSE)
                     ELSE /\ pc' = [pc EXCEPT ![p] = "connected"]
                          /\ resp' = [resp EXCEPT ![p] = NoResp]
                          /\ openConns' = openConns + 1
    /\ UNCHANGED <<users, nextUserId, tasks, nextTaskId, clock, pending, sessions, registered>>

At(p, handler, where) == pc[p] = where /\ req[p].handler = handler

\* ---------------------------------------------------------------- register
register_entry(p, limit) ==
    \E r \in RegisterRequests : Entry(p, r, "Database connection failed.", limit)

\* cursor = conn.cursor() stands before the try; the INSERT is inside it.
\* A second INSERT of a username waits while another connection holds an
\* uncommitted row with that username (the unique index's lock).
register_execute(p) ==
    /\ At(p, "register", "connected")
    /\ \A q \in Procs \ {p} :
          pending[q].kind = "user" => pending[q].row.username # req[p].username
    /\ \E f \in FaultAt({"cursor", "execute"}) :
          /\ Raise(p, f)
          /\ CASE f = "cursor" ->
                    /\ Return(p, Unhandled("mysql.connector.Error"), FALSE)
                    /\ UNCHANGED <<pending, nextUserId>>
               [] f = "execute" ->
                    /\ Return(p, Json(400, [error |-> "Username already exists"]), TRUE)
                    /\ UNCHANGED <<pending, nextUserId>>
               [] OTHER ->
                    IF DuplicateUsername(users, req[p].username)
                      THEN /\ Return(p, Json(400, [error |-> "Username already exists"]), TRUE)
                           /\ UNCHANGED <<pending, nextUserId>>
                      ELSE /\ pending' = [pending EXCEPT ![p] =
                                  [kind |-> "user",
                                   row |-> UserRow(nextUserId, req[p].username, req[p].password)]]
                           /\ nextUserId' = nextUserId + 1
                           /\ pc' = [pc EXCEPT ![p] = "executed"]
                           /\ UNCHANGED <<resp, openConns>>
    /\ UNCHANGED <<users, tasks, nextTaskId, clock, req, nReq, sessions, registered>>

\* conn.commit(); return 201.  A fault of commit is caught by the same except
\* clause; the finally block closes the connection, which drops the row.
register_commit(p) ==
    /\ At(p, "register", "executed")
    /\ \E f \in FaultAt({"commit"}) :
          /\ Raise(p, f)
          /\ IF f = "commit"
               THEN /\ Return(p, Json(400, [error |-> "Username already exists"]), TRUE)
                    /\ UNCHANGED <<users, registered>>
               ELSE /\ users' = users \cup {pending[p].row}
                    /\ registered' = registered \cup {pending[p].row}
                    /\ Return(p, Json(201, [message |-> "User registered successfully"]), TRUE)
    /\ pending' = [pending EXCEPT ![p] = NoRow]
    /\ UNCHANGED <<nextUserId, tasks, nextTaskId, clock, req, nReq, sessions>>

\* ------------------------------------------------------------------- login
login_entry(p, limit) ==
    \E r \in LoginRequests : Entry(p, r, "Database connection failed", limit)

\* cursor creation is inside the try: its fault is caught, but the finally
\* block then calls cursor.close() on a name that was never bound, and the
\* UnboundLocalError leaves the handler before conn.close().
login_execute(p) ==
    /\ At(p, "login", "connected")
    /\ \E f \in FaultAt({"cursor", "execute"}) :
          /\ Raise(p, f)
          /\ CASE f = "cursor" ->
                    /\ Return(p, Unhandled("UnboundLocalError"), FALSE)
                    /\ UNCHANGED sessions
               [] f = "execute" ->
                    /\ Return(p, Json(500, [error |-> "Database query failed"]), TRUE)
                    /\ UNCHANGED sessions
               [] OTHER ->
                    LET found == LoginQuery(users, req[p].username, req[p].password) IN
                    IF found # {}
                      THEN \E user \in found :
                             /\ Return(p, Json(200, [id |-> user.id, username |-> user.username]), TRUE)
                             /\ sessions' = sessions \cup {user.id}
                      ELSE /\ Return(p, Json(401, [error |-> "Invalid username or password"]), TRUE)
                           /\ UNCHANGED sessions
    /\ UNCHANGED <<users, nextUserId, tasks, nextTaskId, clock, req, pending, nReq, registered>>

\* ------------------------------------------------------------ task requests
GetTasksRequests ==
    {Request("get_tasks", TRUE, "", "", uid, "", 0, "", c) : uid \in UserIds, c \in Callers}
AddTaskRequests ==
    {Request("add_task", TRUE, "", "", uid, t, 0, "", c) :
        uid \in UserIds, t \in Titles, c \in Callers}
    \cup {Request("add_task", FALSE, "", "", 0, "", 0, "", c) : c \in Callers}
UpdateTaskRequests ==
    {Request("update_task", TRUE, "", "", 0, "", tid, st, c) :
        tid \in TaskIds, st \in Statuses, c \in Callers}
    \cup {Request("update_task", FALSE, "", "", 0, "", tid, "", c) :
            tid \in TaskIds, c \in Callers}
DeleteTaskRequests ==
    {Request("delete_task", j, "", "", 0, "", tid, "", c) :
        j \in BOOLEAN, tid \in TaskIds, c \in Callers}

\* --------------------------------------------------------------- get_tasks
get_tasks_entry(p, limit) ==
    \E r \in GetTasksRequests : Entry(p, r, "Database connection failed", limit)

\* no try block: a fault of cursor(), execute() or fetchall() leaves the
\* handler before cursor.close() and conn.close()
get_tasks_execute(p) ==
    /\ At(p, "get_tasks", "connected")
    /\ \E f \in FaultAt({"cursor", "execute"}) :
          /\ Raise(p, f)
          /\ IF f # "none"
               THEN Return(p, Unhandled("mysql.connector.Error"), FALSE)
               ELSE \E rows \in OrderByCreatedAtDesc(SelectTasks(tasks, req[p].user_id)) :
                       Return(p, Json(200, [rows |-> rows]), TRUE)
    /\ UNCHANGED <<users, nextUserId, tasks, nextTaskId, clock, req, pending, nReq,
                   sessions, registered>>

\* ---------------------------------------------------------------- add_task
add_task_entry(p, limit) ==
    \E r \in AddTaskRequests : Entry(p, r, "Database connection failed", limit)

\* INSERT INTO tasks (title, user_id): the store assigns id, status "pending"
\* and created_at
add_task_execute(p) ==
    /\ At(p, "add_task", "connected")
    /\ \E f \in FaultAt({"cursor", "execute"}) :
          /\ Raise(p, f)
          /\ IF f # "none"
               THEN /\ Return(p, Unhandled("mysql.connector.Error"), FALSE)
                    /\ UNCHANGED <<pending, nextTaskId>>
               ELSE /\ pending' = [pending EXCEPT ![p] =
                           [kind |-> "task",
                            row |-> TaskRow(nextTaskId, req[p].title, "pending",
                                            req[p].user_id, clock)]]
                    /\ nextTaskId' = nextTaskId + 1
                    /\ pc' = [pc EXCEPT ![p] = "executed"]
                    /\ UNCHANGED <<resp, openConns>>
    /\ UNCHANGED <<users, nextUserId, tasks, clock, req, nReq, sessions, registered>>

\* conn.commit(); new_id = cursor.lastrowid; close; return 201
add_task_commit(p) ==
    /\ At(p, "add_task", "executed")
    /\ \E f \in FaultAt({"commit"}) :
          /\ Raise(p, f)
          /\ IF f # "none"
               THEN /\ Return(p, Unhandled("mysql.connector.Error"), FALSE)
                    /\ UNCHANGED tasks
               ELSE /\ tasks' = tasks \cup {pending[p].row}
                    /\ Return(p, Json(201, [id |-> pending[p].row.id,
                                            title |-> req[p].title,
                                            status |-> "pending"]), TRUE)
    /\ pending' = [pending EXCEPT ![p] = NoRow]
    /\ UNCHANGED <<users, nextUserId, nextTaskId, clock, req, nReq, sessions, registered>>

\* ------------------------------------------------------------- update_task
update_task_entry(p, limit) ==
    \E r \in UpdateTaskRequests : Entry(p, r, "Database connection failed", limit)

\* cursor = conn.cursor(); cursor.execute("UPDATE ..."): the change stays in
\* the connection's transaction until the commit
update_task_execute(p) ==
    /\ At(p, "update_task", "connected")
    /\ \E f \in FaultAt({"cursor", "execute"}) :
          /\ Raise(p, f)
          /\ IF f # "none"
               THEN Return(p, Unhandled("mysql.connector.Error"), FALSE)
               ELSE /\ pc' = [pc EXCEPT ![p] = "executed"]
                    /\ UNCHANGED <<resp, openConns>>
    /\ UNCHANGED <<users, nextUserId, tasks, nextTaskId, clock, req, pending, nReq,
                   sessions, registered>>

\* conn.commit(); close; return "Updated"
update_task_commit(p) ==
    /\ At(p, "update_task", "executed")
    /\ \E f \in FaultAt({"commit"}) :
          /\ Raise(p, f)
          /\ IF f # "none"
               THEN /\ Return(p, Unhandled("mysql.connector.Error"), FALSE)
                    /\ UNCHANGED tasks
               ELSE /\ tasks' = UpdateStatus(tasks, req[p].task_id, req[p].status)
                    /\ Return(p, Json(200, [message |-> "Updated"]), TRUE)
    /\ UNCHANGED <<users, nextUserId, nextTaskId, clock, req, pending, nReq, sessions,
                   registered>>

\* ------------------------------------------------------------- delete_task
delete_task_entry(p, limit) ==
    \E r \in DeleteTaskRequests : Entry(p, r, "Database connection failed", limit)

delete_task_execute(p) ==
    /\ At(p, "delete_task", "connected")
    /\ \E f \in FaultAt({"cursor", "execute"}) :
          /\ Raise(p, f)
          /\ IF f # "none"
               THEN Return(p, Unhandled("mysql.connector.Error"), FALSE)
               ELSE /\ pc' = [pc EXCEPT ![p] = "executed"]
                    /\ UNCHANGED <<resp, openConns>>
    /\ UNCHANGED <<users, nextUserId, tasks, nextTaskId, clock, req, pending, nReq,
                   sessions, registered>>

\* conn.commit(); close; return "Deleted"
delete_task_commit(p) ==
    /\ At(p, "delete_task", "executed")
    /\ \E f \in FaultAt({"commit"}) :
          /\ Raise(p, f)
          /\ IF f # "none"
               THEN /\ Return(p, Unhandled("mysql.connector.Error"), FALSE)
                    /\ UNCHANGED tasks
               ELSE /\ tasks' = DeleteTask(tasks, req[p].task_id)
                    /\ Return(p, Json(200, [message |-> "Deleted"]), TRUE)
    /\ UNCHANGED <<users, nextUserId, nextTaskId, clock, req, pending, nReq, sessions,
                   registered>>

\* ------------------------------------------------------------------- clock
\* the store's clock advances; created_at has the clock's resolution
Tick ==
    /\ clock < MaxClock
    /\ clock' = clock + 1
    /\ UNCHANGED <<users, nextUserId, tasks, nextTaskId, pc, req, resp, pending,
                   openConns, fault, nReq, nFaults, sessions, registered>>

\* ------------------------------------------------------- specifications
Next ==
    \/ \E p \in Procs : register_entry(p, MaxRequests)
    \/ \E p \in Procs : register_execute(p)
    \/ \E p \in Procs : register_commit(p)
    \/ \E p \in Procs : login_entry(p, MaxRequests)
    \/ \E p \in Procs : login_execute(p)
    \/ \E p \in Procs : get_tasks_entry(p, MaxRequests)
    \/ \E p \in Procs : get_tasks_execute(p)
    \/ \E p \in Procs : add_task_entry(p, MaxRequests)
    \/ \E p \in Procs : add_task_execute(p)
    \/ \E p \in Procs : add_task_commit(p)
    \/ \E p \in Procs : update_task_entry(p, MaxRequests)
    \/ \E p \in Procs : update_task_execute(p)
    \/ \E p \in Procs : update_task_commit(p)
    \/ \E p \in Procs : delete_task_entry(p, MaxRequests)
    \/ \E p \in Procs : delete_task_execute(p)
    \/ \E p \in Procs : delete_task_commit(p)
    \/ Tick

Spec == Init /\ [][Next]_vars

\* register and login alone
NextAuth ==
    \/ \E p \in Procs : register_entry(p, MaxAuthRequests)
    \/ \E p \in Procs : register_execute(p)
    \/ \E p \in Procs : register_commit(p)
    \/ \E p \in Procs : login_entry(p, MaxAuthRequests)
    \/ \E p \in Procs : login_execute(p)

SpecAuth == Init /\ [][NextAuth]_vars

\* the task handlers alone
NextTasks ==
    \/ \E p \in Procs : get_tasks_entry(p, MaxTaskRequests)
    \/ \E p \in Procs : get_tasks_execute(p)
    \/ \E p \in Procs : add_task_entry(p, MaxTaskRequests)
    \/ \E p \in Procs : add_task_execute(p)
    \/ \E p \in Procs : add_task_commit(p)
    \/ \E p \in Procs : update_task_entry(p, MaxTaskRequests)
    \/ \E p \in Procs : update_task_execute(p)
    \/ \E p \in Procs : update_task_commit(p)
    \/ \E p \in Procs : delete_task_entry(p, MaxTaskRequests)
    \/ \E p \in Procs : delete_task_execute(p)
    \/ \E p \in Procs : delete_task_commit(p)
    \/ Tick

SpecTasks == Init /\ [][NextTasks]_vars

\* ------------------------------------------------------------------ claims
Done(p, handler) == pc[p] = "done" /\ req[p].handler = handler

\* the step in which worker p's handler returns without a store fault
Returns(p, handler, where) ==
    At(p, handler, where) /\ pc'[p] = "done" /\ fault'[p] = "none"

RowsOf(rows, username) == {u \in rows : u.username = username}

\* C1: once POST /register with a username/password pair has answered 201, a
\* POST /login with the same pair that the store serves without a fault answers
\* 200 with the id the store assigned to the row at registration and the
\* registered username, whatever was registered or logged in in between.
C1_RegisterThenLogin ==
    [][\A p \in Procs :
          Returns(p, "login", "connected") =>
             \A r \in registered :
                (r.username = req[p].username /\ r.password = req[p].password) =>
                   resp'[p] = Json(200, [id |-> r.id, username |-> r.username])]_vars

\* a second user registered after the first logs in and gets its own id
C1_Witness ==
    \E p \in Procs :
       /\ Done(p, "login")
       /\ resp[p].status = 200
       /\ Cardinality(registered) = 2
       /\ resp[p].body.id = 2
       /\ \E r \in registered :
             r.id = 2 /\ r.username = req[p].username /\ r.password = req[p].password

\* C2, in every state: no two user rows share a username, the rows are
\* the registrations that answered 201 (at most one for a username), and a
\* register request served without a fault leaves a row with its username.
C2_State ==
    /\ registered = users
    /\ \A u \in Usernames : Cardinality(RowsOf(users, u)) <= 1
    /\ \A r1, r2 \in users : r1.id = r2.id => r1 = r2
    /\ \A p \in Procs :
          (Done(p, "register") /\ req[p].is_json /\ fault[p] = "none") =>
             Cardinality(RowsOf(registered, req[p].username)) = 1

\* C2, in every step: a register request served without a fault answers 400
\* "Username already exists" and adds no row when a row has its username, and
\* answers 201 and adds exactly its own row when none has.
C2_Step ==
    \A p \in Procs :
       /\ Returns(p, "register", "connected") =>
             /\ RowsOf(users, req[p].username) # {}
             /\ resp'[p] = Json(400, [error |-> "Username already exists"])
             /\ users' = users
       /\ Returns(p, "register", "executed") =>
             /\ RowsOf(users, req[p].username) = {}
             /\ resp'[p] = Json(201, [message |-> "User registered successfully"])
             /\ \E row \in users' :
                   /\ row.username = req[p].username
                   /\ row.password = req[p].password
                   /\ users' = users \cup {row}
       /\ (req[p].handler = "register" /\ pc[p] # "done" /\ pc'[p] = "done"
              /\ resp'[p].status = 400) => users' = users

\* C2: among the POST /register requests with one username, served one after
\* another or at the same time, exactly one answers 201 and every other one
\* answers 400 "Username already exists" and adds no user row; no two user
\* rows ever share a username.
C2_UniqueUsername == []C2_State /\ [][C2_Step]_vars

\* two requests with the same username in flight together: one 201, one 400
C2_Witness ==
    \E p, q \in Procs :
       /\ p # q
       /\ Done(p, "register") /\ Done(q, "register")
       /\ req[p].is_json /\ req[q].is_json
       /\ req[p].username = req[q].username
       /\ fault[p] = "none" /\ fault[q] = "none"
       /\ resp[p].status = 201
       /\ resp[q] = Json(400, [error |-> "Username already exists"])

\* C3: POST /login with the username of an existing user and another password
\* answers 401 "Invalid username or password"; a 200 login response is given
\* only when a user row has exactly that username and exactly that password,
\* and it carries that row's id and username.
C3_WrongPassword ==
    \A p \in Procs :
       Done(p, "login") =>
          /\ resp[p].status = 200 =>
                \E u \in users :
                   /\ u.username = req[p].username
                   /\ u.password = req[p].password
                   /\ resp[p].body = [id |-> u.id, username |-> u.username]
          /\ ( /\ req[p].is_json
               /\ fault[p] = "none"
               /\ \E u \in users :
                     u.username = req[p].username /\ u.password # req[p].password )
             => resp[p] = Json(401, [error |-> "Invalid username or password"])

C3_Witness ==
    \E p \in Procs :
       /\ Done(p, "login")
       /\ resp[p].status = 401
       /\ \E u \in users : u.username = req[p].username /\ u.password # req[p].password

\* the rows of a listing, as a set
Range(s) == {s[i] : i \in 1..Len(s)}

\* what GET /tasks/{user_id} must return for the table as it is: every row of
\* the user once, no other row, a later created_at before an earlier one
ListingOf(rows, user_id, listing) ==
    /\ Range(listing) = {t \in rows : t.user_id = user_id}
    /\ Len(listing) = Cardinality(Range(listing))
    /\ \A i, j \in 1..Len(listing) :
          i < j => listing[i].created_at >= listing[j].created_at

\* C4 as amended: GET /tasks/{user_id} served without a fault answers 200 with
\* exactly the committed task rows of that user_id, ordered by created_at
\* descending; of two rows with different created_at the one created later
\* comes first; rows with equal created_at come in either order.
C4_ListingOrder ==
    [][\A p \in Procs :
          Returns(p, "get_tasks", "connected") =>
             /\ resp'[p].status = 200
             /\ ListingOf(tasks, req[p].user_id, resp'[p].body.rows)
             /\ \A i, j \in 1..Len(resp'[p].body.rows) :
                   LET rows == resp'[p].body.rows IN
                   (i < j /\ rows[i].created_at # rows[j].created_at) =>
                      rows[i].id > rows[j].id]_vars

\* a listing of two tasks created at different times
C4_Witness ==
    \E p \in Procs :
       /\ Done(p, "get_tasks")
       /\ resp[p].status = 200
       /\ resp[p].handled
       /\ Len(resp[p].body.rows) = 2
       /\ resp[p].body.rows[1].created_at > resp[p].body.rows[2].created_at

\* C4 as claimed: of any two listed tasks the one created later (the higher
\* id) comes first, also when their created_at are equal.
C4_LaterFirstAlways ==
    \A p \in Procs :
       (Done(p, "get_tasks") /\ resp[p].handled /\ resp[p].status = 200) =>
          \A i, j \in 1..Len(resp[p].body.rows) :
             i < j => resp[p].body.rows[i].id > resp[p].body.rows[j].id

\* C5: PUT /tasks/{task_id} with {status: s}, served without a fault, answers
\* 200 "Updated", sets the status of the row with that id to s and changes no
\* other row and no other field; when no row has that id the table is
\* unchanged.
C5_UpdateFrame ==
    [][\A p \in Procs :
          Returns(p, "update_task", "executed") =>
             /\ resp'[p] = Json(200, [message |-> "Updated"])
             /\ users' = users
             /\ Cardinality(tasks') = Cardinality(tasks)
             /\ \A t \in tasks :
                   IF t.id = req[p].task_id
                     THEN TaskRow(t.id, t.title, req[p].status, t.user_id, t.created_at)
                             \in tasks'
                     ELSE t \in tasks'
             /\ (\A t \in tasks : t.id # req[p].task_id) => tasks' = tasks]_vars

\* an update of one of two tasks, seen by a listing of the owner's tasks
C5_Witness ==
    \E p, q \in Procs :
       /\ Done(p, "update_task") /\ resp[p] = Json(200, [message |-> "Updated"])
       /\ Done(q, "get_tasks") /\ resp[q].handled /\ resp[q].status = 200
       /\ \E i \in 1..Len(resp[q].body.rows) :
             /\ resp[q].body.rows[i].id = req[p].task_id
             /\ resp[q].body.rows[i].status = req[p].status
             /\ resp[q].body.rows[i].status # "pending"

\* C6: DELETE /tasks/{task_id}, served without a fault, answers 200 "Deleted"
\* and removes the row with that id and no other; when no row has the id (a
\* second DELETE) the table stays as it is; an id the store has assigned and
\* that no row carries is never carried by a row again.
C6_DeleteExactly ==
    [][/\ \A p \in Procs :
             Returns(p, "delete_task", "executed") =>
                /\ resp'[p] = Json(200, [message |-> "Deleted"])
                /\ users' = users
                /\ \A t \in tasks : (t \in tasks') <=> (t.id # req[p].task_id)
                /\ tasks' \subseteq tasks
                /\ (\A t \in tasks : t.id # req[p].task_id) => tasks' = tasks
       /\ \A i \in 1..(nextTaskId - 1) :
             ( /\ \A t \in tasks : t.id # i
               /\ \A q \in Procs : pending[q].kind = "task" => pending[q].row.id # i )
             => \A t \in tasks' : t.id # i]_vars

\* the same task deleted by two requests: both answer 200, another task stays
C6_Witness ==
    \E p, q \in Procs :
       /\ p # q
       /\ Done(p, "delete_task") /\ resp[p] = Json(200, [message |-> "Deleted"])
       /\ Done(q, "delete_task") /\ resp[q] = Json(200, [message |-> "Deleted"])
       /\ req[p].task_id = req[q].task_id
       /\ req[p].task_id < nextTaskId
       /\ \A t \in tasks : t.id # req[p].task_id

NotJson415 == Json(415, [error |-> "Content-Type must be application/json"])

\* the step in which a request reaches worker p's handler
Arrives(p) == nReq' = nReq + 1 /\ Free(p) /\ \A q \in Procs : q < p => ~Free(q)

\* C7 as amended: POST /register, POST /login, POST /tasks and
\* PUT /tasks/{task_id} sent with a content type that is not JSON answer 415,
\* leave the users and tasks tables as they were and open no store connection;
\* DELETE /tasks/{task_id} does not look at the content type: served without a
\* fault it deletes the row and answers 200 "Deleted".
C7_NotJson ==
    [][\A p \in Procs :
          /\ ( /\ Arrives(p)
               /\ req'[p].handler \in {"register", "login", "add_task", "update_task"}
               /\ ~req'[p].is_json )
             => /\ resp'[p] = NotJson415
                /\ pc'[p] = "done"
                /\ users' = users
                /\ tasks' = tasks
                /\ pending' = pending
                /\ nextUserId' = nextUserId
                /\ nextTaskId' = nextTaskId
                /\ openConns' = openConns
          /\ ( /\ Returns(p, "delete_task", "executed")
               /\ ~req[p].is_json )
             => /\ resp'[p] = Json(200, [message |-> "Deleted"])
                /\ tasks' = {t \in tasks : t.id # req[p].task_id}]_vars

\* a PUT that is not JSON, for a task that exists and keeps its status
C7_Witness ==
    \E p \in Procs :
       /\ Done(p, "update_task")
       /\ ~req[p].is_json
       /\ resp[p] = NotJson415
       /\ openConns = 0
       /\ \E t \in tasks : t.id = req[p].task_id /\ t.status = "pending"

\* C7 as claimed: every write request that is not JSON, DELETE included, is
\* answered 415 at once: its handler never gets past the content-type check.
C7_EveryWriteIs415 ==
    \A p \in Procs :
       ( /\ req[p].handler \in {"register", "login", "add_task", "update_task",
                                "delete_task"}
         /\ ~req[p].is_json )
       => (pc[p] = "done" /\ resp[p] = NotJson415)

\* C8: a store fault raised at cursor creation, execute, fetch or commit is
\* caught in the handler and answered 500 with an {"error": ...} body (400 is
\* kept for the duplicate username); no handler is left by an exception.
C8_FaultsCaught ==
    \A p \in Procs :
       pc[p] = "done" =>
          /\ resp[p].handled
          /\ fault[p] \in {"cursor", "execute", "commit"} =>
                (resp[p].status = 500 /\ DOMAIN resp[p].body = {"error"})

\* C9: a task's status changes, and a task is removed, only in a request made
\* by the caller whose user id is the task's user_id.
C9_OwnerOnly ==
    [][\A t \in tasks :
          t \notin tasks' =>
             \E p \in Procs :
                /\ pc[p] = "executed" /\ pc'[p] = "done"
                /\ req[p].handler \in {"update_task", "delete_task"}
                /\ req[p].task_id = t.id
                /\ req[p].caller = t.user_id]_vars

\* C10: once every handler has finished, no connection it opened is open.
C10_ConnectionsClosed ==
    (\A p \in Procs : Free(p)) => openConns = 0

====
